---- MODULE Spec2Model ----
(***************************************************************************)
(* Micro-batching chat service (app/main.py, app/model_loader.py).         *)
(*                                                                         *)
(* Request handlers (one thread per HTTP request) lazily start the batch   *)
(* worker, enqueue a _BatchItem on BATCH_QUEUE and wait on its event; the  *)
(* worker assembles batches bounded by BATCH_MAX_SIZE and                  *)
(* BATCH_MAX_DELAY_SEC, calls the backend once per item and sets each      *)
(* item's event.  Requests with profile=true bypass the queue and call     *)
(* the backend on the handler thread.                                      *)
(*                                                                         *)
(* Threads are numbered: handler h is thread h, the worker thread created  *)
(* by handler h (the local t of _ensure_batch_thread) is thread -h.  A     *)
(* ChatModel object is named by the thread that constructed it.            *)
(* Optional values are sequences: None is <<>>, a value x is <<x>>.        *)
(***************************************************************************)
EXTENDS Integers, Sequences, FiniteSets

\* ---------------------------------------------------------------- bounds
NHandlers == 3
MaxProfiled == 1
MaxS == 3
MaxW == 1

Handlers == 1..NHandlers
SizeValues == 0..MaxS
WindowValues == 0..MaxW

\* settings that disable batching, and the extreme settings of each kind
NonPositive == {-1, 0}
EdgeSizes == NonPositive \cup {MaxS}
EdgeWindows == NonPositive \cup {MaxW}

\* ---------------------------------------------------------------- values
None == <<>>
Some(x) == <<x>>
NoModel == 0
NoOne == 0
ErrDescs == {"", "err"}

HandlerThread(h) == h
WorkerThread(w) == 0 - w

VARIABLES
  BATCH_MAX_SIZE,        \* configured S
  BATCH_MAX_DELAY_SEC,   \* configured W, in clock ticks
  BATCH_QUEUE,           \* queue.Queue of tickets (a ticket is named by its handler)
  batch_thread_started,  \* _batch_thread_started
  batch_lock,            \* holder of _batch_lock, NoOne when free
  hpc,                   \* handler h: position in chat()
  profile,               \* handler h: the profile query parameter
  item,                  \* handler h: its _BatchItem (event, output, error), None before line 131
  resp,                  \* handler h: the HTTP response returned, None while running
  plocals,               \* handler h: locals of the profiling path (model, output, used_fallback)
  wpc,                   \* worker w: position in _batch_worker
  batch,                 \* worker w: local `batch`
  window,                \* worker w: deadline - time.time(), the time left in the window
  idx,                   \* worker w: position of the for loop in batch
  wm,                    \* worker w: local `m`
  global_chat_model,     \* model_loader.global_chat_model
  loaded,                \* ChatModel objects whose load() has completed
  metrics,               \* _metrics
  putOrder,              \* history: tickets in the order their put completed
  genOrder,              \* history: tickets in the order the worker's generate calls started
  setCount,              \* history: number of event.set() calls per ticket
  outcome,               \* history: what the backend call for the ticket did
  genCalls,              \* history: number of generate calls made for handler h's request
  doneSizes,             \* history: len(batch) of every completed iteration of the worker loop
  mpc,                   \* the GET /metrics request: position in metrics()
  mq                     \* the GET /metrics request: values read so far and the response built

vars == <<BATCH_MAX_SIZE, BATCH_MAX_DELAY_SEC, BATCH_QUEUE, batch_thread_started,
          batch_lock, hpc, profile, item, resp, plocals, wpc, batch, window, idx, wm,
          global_chat_model, loaded, metrics, putOrder, genOrder, setCount,
          outcome, genCalls, doneSizes, mpc, mq>>

cfgVars == <<BATCH_MAX_SIZE, BATCH_MAX_DELAY_SEC>>
startVars == <<batch_thread_started, batch_lock>>
modelVars == <<global_chat_model, loaded>>
histVars == <<putOrder, genOrder, setCount, outcome, genCalls>>
workerVars == <<wpc, batch, window, idx, wm>>
handlerVars == <<hpc, profile, item, resp, plocals>>
queryVars == <<mpc, mq>>

\* ---------------------------------------------------------------- _BatchItem
NewBatchItem(prompt) ==
  [prompt |-> prompt, event |-> FALSE, output |-> None, error |-> None]

\* the text the backend returns for a prompt
GenText(prompt) == [reply |-> prompt]
\* the empty text, output = "" of line 148
EmptyText == [reply |-> 0]

\* Python truthiness of an Optional[str]
Truthy(opt) == opt /= None /\ opt[1] /= ""

\* history value: what a generate call did (kind is "none" before it ends)
NoOutcome == [kind |-> "none", desc |-> ""]
Returned == [kind |-> "ok", desc |-> ""]
Raised(desc) == [kind |-> "raised", desc |-> desc]

\* the GET /metrics request before it has read anything; avg is a fraction
NoAvg == [num |-> 0, den |-> 0]
NoQuery == [batches |-> 0, total_batch_items |-> 0, num |-> 0, avg_batch_size |-> NoAvg]

\* the state of the module after import and before the first request
InitState ==
  /\ BATCH_QUEUE = <<>>
  /\ batch_thread_started = FALSE
  /\ batch_lock = NoOne
  /\ hpc = [h \in Handlers |-> "idle"]
  /\ profile = [h \in Handlers |-> FALSE]
  /\ item = [h \in Handlers |-> None]
  /\ resp = [h \in Handlers |-> None]
  /\ plocals = [h \in Handlers |-> [model |-> NoModel, output |-> EmptyText, used_fallback |-> FALSE]]
  /\ wpc = [w \in Handlers |-> "unstarted"]
  /\ batch = [w \in Handlers |-> <<>>]
  /\ window = [w \in Handlers |-> 0]
  /\ idx = [w \in Handlers |-> 0]
  /\ wm = [w \in Handlers |-> NoModel]
  /\ global_chat_model = NoModel
  /\ loaded = {}
  /\ metrics = [batches |-> 0, total_batch_items |-> 0]
  /\ putOrder = <<>>
  /\ genOrder = <<>>
  /\ setCount = [h \in Handlers |-> 0]
  /\ outcome = [h \in Handlers |-> NoOutcome]
  /\ genCalls = [h \in Handlers |-> 0]
  /\ doneSizes = <<>>
  /\ mpc = "idle"
  /\ mq = NoQuery

Init ==
  /\ BATCH_MAX_SIZE \in SizeValues
  /\ BATCH_MAX_DELAY_SEC \in WindowValues
  /\ InitState

\* ---------------------------------------------------------------- chat(): entry
NumProfiled == Cardinality({h \in Handlers : profile[h]})

\* mutant of TakesBatchedPath: the test is inverted
TakesBatchedPathInverted(p) == p

\* line 129: `if not profile:` selects the batched path
TakesBatchedPath(p) == ~p

\* lines 131-132: construct the ticket and put it on the queue; the handler
\* then waits at line 133
PutEffect(h) ==
  /\ item' = [item EXCEPT ![h] = Some(NewBatchItem(h))]
  /\ BATCH_QUEUE' = Append(BATCH_QUEUE, h)
  /\ putOrder' = Append(putOrder, h)

\* mutant of SeesStarted: the worker is taken to be running
SeesStartedAlways == TRUE

\* lines 47-48: the check of the flag made without the lock
SeesStarted == batch_thread_started

\* lines 116-132 and 147 (model_loader line 231): a request arrives with profile
\* parameter p.  On the batched path it makes the unlocked check of the flag
\* (lines 47-48) and, the worker being started, enqueues its ticket; on the
\* profiling path it enters get_model and tests the global.  Handlers are
\* interchangeable, so they are numbered in the order their requests arrive.
Arrive(h, p) ==
  /\ hpc[h] = "idle"
  /\ h > 1 => hpc[h - 1] /= "idle"
  /\ profile' = [profile EXCEPT ![h] = p]
  /\ IF TakesBatchedPath(p)
       THEN IF SeesStarted
              THEN /\ PutEffect(h)
                   /\ hpc' = [hpc EXCEPT ![h] = "wait"]
              ELSE /\ hpc' = [hpc EXCEPT ![h] = "e_lock"]
                   /\ UNCHANGED <<item, BATCH_QUEUE, putOrder>>
       ELSE /\ hpc' = [hpc EXCEPT ![h] =
                 IF global_chat_model = NoModel THEN "p_gm_new" ELSE "p_gm_ret"]
            /\ UNCHANGED <<item, BATCH_QUEUE, putOrder>>
  /\ UNCHANGED <<cfgVars, queryVars, doneSizes, startVars, resp, plocals, workerVars, modelVars, metrics,
                 genOrder, setCount, outcome, genCalls>>

\* POST /chat
RequestBatched(h) == Arrive(h, FALSE)

\* POST /chat?profile=true
RequestProfiled(h) ==
  /\ NumProfiled < MaxProfiled
  /\ Arrive(h, TRUE)

\* ---------------------------------------------------------------- _ensure_batch_thread
\* mutant of SeesStartedUnderLock: the check under the lock is left out
SeesStartedNever == FALSE

\* line 50: the check repeated under the lock
SeesStartedUnderLock == batch_thread_started

\* lines 49-51: `with _batch_lock:` blocks until the lock is free; with the lock
\* held the flag is read again
EnsureLock(h) ==
  /\ hpc[h] = "e_lock"
  /\ batch_lock = NoOne
  /\ batch_lock' = HandlerThread(h)
  /\ hpc' = [hpc EXCEPT ![h] = IF SeesStartedUnderLock THEN "e_unlock" ELSE "e_start"]
  /\ UNCHANGED <<cfgVars, queryVars, doneSizes, BATCH_QUEUE, batch_thread_started, profile, item, resp, plocals,
                 workerVars, modelVars, metrics, histVars>>

\* line 51, then 131-132: return from inside the with block, releasing the lock;
\* the ticket is enqueued
EnsureReturn(h) ==
  /\ hpc[h] = "e_unlock"
  /\ batch_lock' = NoOne
  /\ PutEffect(h)
  /\ hpc' = [hpc EXCEPT ![h] = "wait"]
  /\ UNCHANGED <<cfgVars, queryVars, doneSizes, batch_thread_started, profile, resp, plocals, workerVars,
                 modelVars, metrics, genOrder, setCount, outcome, genCalls>>

\* lines 52-53: create the thread and start it; it begins at the top of _batch_worker
EnsureStart(h) ==
  /\ hpc[h] = "e_start"
  /\ wpc' = [wpc EXCEPT ![h] = "w_get"]
  /\ hpc' = [hpc EXCEPT ![h] = "e_setflag"]
  /\ UNCHANGED <<cfgVars, queryVars, doneSizes, BATCH_QUEUE, startVars, profile, item, resp, plocals,
                 batch, window, idx, wm, modelVars, metrics, histVars>>

\* lines 54-55: set the flag, leave the with block
EnsureSetFlag(h) ==
  /\ hpc[h] = "e_setflag"
  /\ batch_thread_started' = TRUE
  /\ batch_lock' = NoOne
  /\ hpc' = [hpc EXCEPT ![h] = "put"]
  /\ UNCHANGED <<cfgVars, queryVars, doneSizes, BATCH_QUEUE, profile, item, resp, plocals, workerVars,
                 modelVars, metrics, histVars>>

\* worker threads that have been started
Started == {w \in Handlers : wpc[w] /= "unstarted"}

\* ---------------------------------------------------------------- chat(): batched path
\* HTTP responses
\* the keys of the JSON bodies
ErrorKeys == {"error"}
\* line 138
OkKeys == {"response", "latency_sec"}
\* lines 220-226
ProfiledKeys == {"response", "latency_sec", "profile_trace", "profile_summary",
                 "profiler_fallback"}

TimeoutResp == [status |-> 504, response |-> None, error |-> Some("timeout"), trace |-> None,
                keys |-> ErrorKeys]
FailedResp(e) == [status |-> 500, response |-> None, error |-> e, trace |-> None,
                  keys |-> ErrorKeys]
OkResp(out) == [status |-> 200, response |-> out, error |-> None, trace |-> None,
                keys |-> OkKeys]

\* lines 131-132, for the handler that started the worker
Put(h) ==
  /\ hpc[h] = "put"
  /\ PutEffect(h)
  /\ hpc' = [hpc EXCEPT ![h] = "wait"]
  /\ UNCHANGED <<cfgVars, queryVars, doneSizes, startVars, profile, resp, plocals, workerVars, modelVars,
                 metrics, genOrder, setCount, outcome, genCalls>>

\* mutant of TimeoutEffect: the timed-out handler withdraws its ticket from the queue
TimeoutCancels(h) ==
  /\ BATCH_QUEUE' = SelectSeq(BATCH_QUEUE, LAMBDA t : t /= h)
  /\ UNCHANGED <<item, batch>>

\* what the timed-out handler does to the shared state: nothing
TimeoutEffect(h) ==
  UNCHANGED <<BATCH_QUEUE, item, batch>>

\* lines 133-134: event.wait(timeout=300) returns False; the handler answers 504
WaitTimeout(h) ==
  /\ hpc[h] = "wait"
  /\ ~item[h][1].event
  /\ resp' = [resp EXCEPT ![h] = Some(TimeoutResp)]
  /\ hpc' = [hpc EXCEPT ![h] = "done"]
  /\ TimeoutEffect(h)
  /\ UNCHANGED <<cfgVars, queryVars, doneSizes, startVars, profile, plocals, wpc, window, idx, wm,
                 modelVars, metrics, histVars>>

\* mutant of WaitReturnsTrue: the wait returns True without the event being set
WaitReturnsTrueUnset(it) == TRUE

\* line 133: item.event.wait(timeout=300) returns True only when the event is set
WaitReturnsTrue(it) == it.event

\* lines 135-138: the response built from the completed ticket
CompletedResp(it) ==
  IF Truthy(it.error) THEN FailedResp(it.error) ELSE OkResp(it.output)

\* lines 133-138: event.wait returns True once the event is set; the handler
\* reads the slots, which the worker no longer writes, and answers
Respond(h) ==
  /\ hpc[h] = "wait"
  /\ WaitReturnsTrue(item[h][1])
  /\ resp' = [resp EXCEPT ![h] = Some(CompletedResp(item[h][1]))]
  /\ hpc' = [hpc EXCEPT ![h] = "done"]
  /\ UNCHANGED <<cfgVars, queryVars, doneSizes, BATCH_QUEUE, startVars, profile, item, plocals, workerVars,
                 modelVars, metrics, histVars>>

\* ---------------------------------------------------------------- _batch_worker: assembly
\* mutant of CanExtend: the size test is off by one
CanExtendOffByOne(n, left) == n <= BATCH_MAX_SIZE /\ left > 0

\* line 66: the loop condition for a batch of n tickets with time left `left`
\* in the window; left > 0 is time.time() < deadline
CanExtend(n, left) == n < BATCH_MAX_SIZE /\ left > 0

\* mutant of BatchAppend: the ticket is inserted at the front
BatchPrepend(b, t) == <<t>> \o b

\* line 72: batch.append(nxt)
BatchAppend(b, t) == Append(b, t)

\* mutant of AfterLoopCheck: only the size of the batch is tested
AfterLoopCheckSizeOnly(n, left) ==
  IF n < BATCH_MAX_SIZE THEN "w_tget" ELSE "w_gm_check"

\* lines 66-71: where the worker goes with a batch of n tickets and `left` of
\* the window: into BATCH_QUEUE.get(timeout=remaining), remaining being `left`,
\* or out of the loop to line 75 when the batch is full or the window is used up
AfterLoopCheck(n, left) ==
  IF CanExtend(n, left) /\ ~(left <= 0) THEN "w_tget" ELSE "w_gm_check"

\* mutant of NewWindow: the deadline of the previous batch is kept
WindowCarried(w) == window[w]

\* line 65: deadline = time.time() + BATCH_MAX_DELAY_SEC, so the time left is
\* the whole window
NewWindow(w) == BATCH_MAX_DELAY_SEC

\* lines 61-71: blocking get of the first ticket, batch = [first],
\* deadline = now + W, first test of the loop condition
WorkerGet(w) ==
  /\ wpc[w] = "w_get"
  /\ BATCH_QUEUE /= <<>>
  /\ batch' = [batch EXCEPT ![w] = <<Head(BATCH_QUEUE)>>]
  /\ BATCH_QUEUE' = Tail(BATCH_QUEUE)
  /\ window' = [window EXCEPT ![w] = NewWindow(w)]
  /\ wpc' = [wpc EXCEPT ![w] = AfterLoopCheck(1, NewWindow(w))]
  /\ UNCHANGED <<cfgVars, queryVars, doneSizes, startVars, handlerVars, idx, wm, modelVars, metrics, histVars>>

\* lines 71-72, 66-71: the timed get returns a ticket; it is appended and the
\* loop condition is tested again
WorkerTimedGetItem(w) ==
  /\ wpc[w] = "w_tget"
  /\ BATCH_QUEUE /= <<>>
  /\ batch' = [batch EXCEPT ![w] = BatchAppend(batch[w], Head(BATCH_QUEUE))]
  /\ BATCH_QUEUE' = Tail(BATCH_QUEUE)
  /\ wpc' = [wpc EXCEPT ![w] = AfterLoopCheck(Len(batch[w]) + 1, window[w])]
  /\ UNCHANGED <<cfgVars, queryVars, doneSizes, startVars, handlerVars, window, idx, wm, modelVars, metrics,
                 histVars>>

\* mutant of TimedOut: an empty queue raises queue.Empty at once, as get_nowait does
TimedOutAtOnce(left) == TRUE

\* line 71: get(timeout=remaining) gives up when `left`, what is left of
\* remaining, has passed
TimedOut(left) == left <= 0

\* lines 73-74: the timed get raises queue.Empty once the remaining time has passed
WorkerTimedGetEmpty(w) ==
  /\ wpc[w] = "w_tget"
  /\ BATCH_QUEUE = <<>>
  /\ TimedOut(window[w])
  /\ wpc' = [wpc EXCEPT ![w] = "w_gm_check"]
  /\ UNCHANGED <<cfgVars, queryVars, doneSizes, BATCH_QUEUE, startVars, handlerVars, batch, window, idx, wm,
                 modelVars, metrics, histVars>>

\* time.time() advances by one tick while a worker waits in the timed get
Tick ==
  /\ \E w \in Handlers : wpc[w] = "w_tget" /\ window[w] > 0
  /\ window' = [w \in Handlers |->
                  IF wpc[w] = "w_tget" /\ window[w] > 0 THEN window[w] - 1 ELSE window[w]]
  /\ UNCHANGED <<cfgVars, queryVars, doneSizes, BATCH_QUEUE, startVars, handlerVars, wpc, batch, idx, wm,
                 modelVars, metrics, histVars>>

\* ---------------------------------------------------------------- get_model (worker, line 75)
\* model_loader lines 231, 234 and main line 75: if global_chat_model is None the
\* model is to be constructed; otherwise the global is returned, m = it, and the
\* for loop starts
WorkerModelCheck(w) ==
  /\ wpc[w] = "w_gm_check"
  /\ IF global_chat_model = NoModel
       THEN /\ wpc' = [wpc EXCEPT ![w] = "w_gm_new"]
            /\ UNCHANGED <<wm, idx>>
       ELSE /\ wm' = [wm EXCEPT ![w] = global_chat_model]
            /\ idx' = [idx EXCEPT ![w] = 1]
            /\ wpc' = [wpc EXCEPT ![w] = "w_item"]
  /\ UNCHANGED <<cfgVars, queryVars, doneSizes, BATCH_QUEUE, startVars, handlerVars, batch, window,
                 modelVars, metrics, histVars>>

\* model_loader line 232: global_chat_model = ChatModel()
WorkerModelNew(w) ==
  /\ wpc[w] = "w_gm_new"
  /\ global_chat_model' = WorkerThread(w)
  /\ wpc' = [wpc EXCEPT ![w] = "w_gm_load"]
  /\ UNCHANGED <<cfgVars, queryVars, doneSizes, BATCH_QUEUE, startVars, handlerVars, batch, window, idx, wm,
                 loaded, metrics, histVars>>

\* model_loader line 233: global_chat_model.load() returns
WorkerModelLoadOk(w) ==
  /\ wpc[w] = "w_gm_load"
  /\ loaded' = loaded \cup {global_chat_model}
  /\ wpc' = [wpc EXCEPT ![w] = "w_gm_ret"]
  /\ UNCHANGED <<cfgVars, queryVars, doneSizes, BATCH_QUEUE, startVars, handlerVars, batch, window, idx, wm,
                 global_chat_model, metrics, histVars>>

\* where the worker goes when get_model() raises: nothing at line 75 catches it,
\* the exception leaves _batch_worker and the thread ends
OnGetModelException == "dead"

\* model_loader line 233 (lines 166-169): load() raises
WorkerModelLoadFail(w) ==
  /\ wpc[w] = "w_gm_load"
  /\ wpc' = [wpc EXCEPT ![w] = OnGetModelException]
  /\ UNCHANGED <<cfgVars, queryVars, doneSizes, BATCH_QUEUE, startVars, handlerVars, batch, window, idx, wm,
                 modelVars, metrics, histVars>>

\* model_loader line 234, main line 75: m = the returned global; the for loop starts
WorkerModelReturn(w) ==
  /\ wpc[w] = "w_gm_ret"
  /\ wm' = [wm EXCEPT ![w] = global_chat_model]
  /\ idx' = [idx EXCEPT ![w] = 1]
  /\ wpc' = [wpc EXCEPT ![w] = "w_item"]
  /\ UNCHANGED <<cfgVars, queryVars, doneSizes, BATCH_QUEUE, startVars, handlerVars, batch, window,
                 modelVars, metrics, histVars>>

\* ---------------------------------------------------------------- ChatModel.generate
\* model_loader lines 186-187: generate() loads the model itself when it is
\* not loaded yet, so a call that returns leaves the object loaded
LoadedAfterReturn(o) == loaded \cup {o}

\* a call that raises may have failed in that load or after it
LoadedAfterRaise(o) == {loaded, loaded \cup {o}}

\* ---------------------------------------------------------------- _batch_worker: dispatch
CurrentTicket(w) == batch[w][idx[w]]

\* line 81: item.output = m.generate(...)
ItemAfterReturn(it, text) == [it EXCEPT !.output = Some(text)]

\* mutant of ItemAfterRaise: the exception is swallowed, nothing is recorded
ItemAfterRaiseLost(it, desc) == it

\* lines 82-83: item.error = str(e)
ItemAfterRaise(it, desc) == [it EXCEPT !.error = Some(desc)]

\* mutant of ItemSignalled: the event is set after the try, not in a finally
\* clause, and the except clause goes on to the next item
ItemSignalledUnlessError(it) ==
  IF it.error /= None THEN it ELSE [it EXCEPT !.event = TRUE]

\* line 85: item.event.set()
ItemSignalled(it) == [it EXCEPT !.event = TRUE]

\* mutant of NextIndex: an item's failure ends the for loop
NextIndexBreakOnError(w) ==
  IF item[batch[w][idx[w]]][1].error /= None THEN Len(batch[w]) + 1 ELSE idx[w] + 1

\* line 78: the for loop goes on to the next item whatever the last one did
NextIndex(w) == idx[w] + 1

\* lines 78-81: next item of the batch; m.generate is entered
WorkerGenStart(w) ==
  /\ wpc[w] = "w_item"
  /\ idx[w] <= Len(batch[w])
  /\ genOrder' = Append(genOrder, CurrentTicket(w))
  /\ genCalls' = [genCalls EXCEPT ![CurrentTicket(w)] = @ + 1]
  /\ wpc' = [wpc EXCEPT ![w] = "w_gen"]
  /\ UNCHANGED <<cfgVars, queryVars, doneSizes, BATCH_QUEUE, startVars, handlerVars, batch, window, idx, wm,
                 modelVars, metrics, putOrder, setCount, outcome>>

\* line 81: generate returns; the text goes to the output slot
WorkerGenReturn(w) ==
  /\ wpc[w] = "w_gen"
  /\ LET t == CurrentTicket(w) IN
       /\ item' = [item EXCEPT ![t] = Some(ItemAfterReturn(item[t][1], GenText(item[t][1].prompt)))]
       /\ outcome' = [outcome EXCEPT ![t] = Returned]
  /\ loaded' = LoadedAfterReturn(wm[w])
  /\ wpc' = [wpc EXCEPT ![w] = "w_set"]
  /\ UNCHANGED <<cfgVars, queryVars, doneSizes, BATCH_QUEUE, startVars, hpc, profile, resp, plocals, batch, window,
                 idx, wm, global_chat_model, metrics, putOrder, genOrder, setCount, genCalls>>

\* lines 82-83: generate raises; str(e) goes to the error slot
WorkerGenRaise(w) ==
  /\ wpc[w] = "w_gen"
  /\ \E desc \in ErrDescs :
       LET t == CurrentTicket(w) IN
         /\ item' = [item EXCEPT ![t] = Some(ItemAfterRaise(item[t][1], desc))]
         /\ outcome' = [outcome EXCEPT ![t] = Raised(desc)]
  /\ loaded' \in LoadedAfterRaise(wm[w])
  /\ wpc' = [wpc EXCEPT ![w] = "w_set"]
  /\ UNCHANGED <<cfgVars, queryVars, doneSizes, BATCH_QUEUE, startVars, hpc, profile, resp, plocals, batch, window,
                 idx, wm, global_chat_model, metrics, putOrder, genOrder, setCount, genCalls>>

\* lines 84-85: finally: item.event.set(); on to the next item
WorkerSetEvent(w) ==
  /\ wpc[w] = "w_set"
  /\ LET t == CurrentTicket(w) IN
       /\ item' = [item EXCEPT ![t] = Some(ItemSignalled(item[t][1]))]
       /\ setCount' = [setCount EXCEPT ![t] = @ + 1]
  /\ idx' = [idx EXCEPT ![w] = NextIndex(w)]
  /\ wpc' = [wpc EXCEPT ![w] = "w_item"]
  /\ UNCHANGED <<cfgVars, queryVars, doneSizes, BATCH_QUEUE, startVars, hpc, profile, resp, plocals, batch, window,
                 wm, modelVars, metrics, putOrder, genOrder, outcome, genCalls>>

\* ---------------------------------------------------------------- _record_batch
\* line 102
RecordBatches(mt) == [mt EXCEPT !.batches = @ + 1]

\* mutant of RecordItems: every batch is counted as one item
RecordItemsAsOne(mt, n) == [mt EXCEPT !.total_batch_items = @ + 1]

\* line 103
RecordItems(mt, n) == [mt EXCEPT !.total_batch_items = @ + n]

\* mutant of ForLoopOver: the loop is left one item early
ForLoopOverEarly(w) == idx[w] >= Len(batch[w])

\* line 78: the for loop has gone through every item of the batch
ForLoopOver(w) == idx[w] > Len(batch[w])

\* lines 86-95, 102: the for loop is over; _record_batch(len(batch)) counts the batch
WorkerBatchDone(w) ==
  /\ wpc[w] = "w_item"
  /\ ForLoopOver(w)
  /\ metrics' = RecordBatches(metrics)
  /\ wpc' = [wpc EXCEPT ![w] = "w_rec2"]
  /\ UNCHANGED <<cfgVars, queryVars, doneSizes, BATCH_QUEUE, startVars, handlerVars, batch, window, idx, wm,
                 modelVars, histVars>>

\* line 103, then back to the top of the while True loop: the iteration is complete
WorkerRecordItems(w) ==
  /\ wpc[w] = "w_rec2"
  /\ metrics' = RecordItems(metrics, Len(batch[w]))
  /\ doneSizes' = Append(doneSizes, Len(batch[w]))
  /\ wpc' = [wpc EXCEPT ![w] = "w_get"]
  /\ UNCHANGED <<cfgVars, queryVars, BATCH_QUEUE, startVars, handlerVars, batch, window, idx, wm,
                 modelVars, histVars>>

\* ---------------------------------------------------------------- chat(): profiling path
\* an exception nothing in chat() catches: the framework answers 500
UnhandledResp == [status |-> 500, response |-> None, error |-> Some("Internal Server Error"),
                  trace |-> None, keys |-> {}]
\* line 217
ProfilingFailedResp == [status |-> 500, response |-> None, error |-> Some("profiling failed"),
                        trace |-> None, keys |-> ErrorKeys]
\* lines 220-226
ProfiledResp(out, path) == [status |-> 200, response |-> Some(out), error |-> None,
                            trace |-> Some(path), keys |-> ProfiledKeys]

\* line 145: trace_file, as the sequence of the suffixes of its name
TraceFile == <<"json">>
\* line 186: gz_path = trace_file.with_suffix(trace_file.suffix + ".gz")
GzPath(path) == Append(path, "gz")
\* str.endswith("." + suffix)
EndsWith(path, suffix) == path /= <<>> /\ path[Len(path)] = suffix

\* model_loader line 232
ProfModelNew(h) ==
  /\ hpc[h] = "p_gm_new"
  /\ global_chat_model' = HandlerThread(h)
  /\ hpc' = [hpc EXCEPT ![h] = "p_gm_load"]
  /\ UNCHANGED <<cfgVars, queryVars, doneSizes, BATCH_QUEUE, startVars, profile, item, resp, plocals, workerVars,
                 loaded, metrics, histVars>>

\* model_loader line 233: load() returns
ProfModelLoadOk(h) ==
  /\ hpc[h] = "p_gm_load"
  /\ loaded' = loaded \cup {global_chat_model}
  /\ hpc' = [hpc EXCEPT ![h] = "p_gm_ret"]
  /\ UNCHANGED <<cfgVars, queryVars, doneSizes, BATCH_QUEUE, startVars, profile, item, resp, plocals, workerVars,
                 global_chat_model, metrics, histVars>>

\* model_loader line 233: load() raises, out of get_model and out of chat()
ProfModelLoadFail(h) ==
  /\ hpc[h] = "p_gm_load"
  /\ resp' = [resp EXCEPT ![h] = Some(UnhandledResp)]
  /\ hpc' = [hpc EXCEPT ![h] = "done"]
  /\ UNCHANGED <<cfgVars, queryVars, doneSizes, BATCH_QUEUE, startVars, profile, item, plocals, workerVars,
                 modelVars, metrics, histVars>>

\* model_loader line 234, main lines 147-170, 153: model = the returned global;
\* torch.profiler is entered and _run_generate calls generate
ProfGenStart(h) ==
  /\ hpc[h] = "p_gm_ret"
  /\ plocals' = [plocals EXCEPT ![h].model = global_chat_model]
  /\ genCalls' = [genCalls EXCEPT ![h] = @ + 1]
  /\ hpc' = [hpc EXCEPT ![h] = "p_gen1"]
  /\ UNCHANGED <<cfgVars, queryVars, doneSizes, BATCH_QUEUE, startVars, profile, item, resp, workerVars,
                 modelVars, metrics, putOrder, genOrder, setCount, outcome>>

\* model_loader line 234, main lines 147, 159-169, 195-198: model = the returned
\* global; setting up torch.profiler raises and the fallback is taken
ProfSetupRaise(h) ==
  /\ hpc[h] = "p_gm_ret"
  /\ plocals' = [plocals EXCEPT ![h].model = global_chat_model, ![h].used_fallback = TRUE]
  /\ hpc' = [hpc EXCEPT ![h] = "p_fb"]
  /\ UNCHANGED <<cfgVars, queryVars, doneSizes, BATCH_QUEUE, startVars, profile, item, resp, workerVars,
                 modelVars, metrics, histVars>>

\* lines 153, 172-194, 219-226: generate returns under torch.profiler and the
\* trace is exported; prof_path is the .json.gz when gzip worked and the .json
\* when it did not
ProfGenReturn(h) ==
  /\ hpc[h] = "p_gen1"
  /\ plocals' = [plocals EXCEPT ![h].output = GenText(h)]
  /\ loaded' = LoadedAfterReturn(plocals[h].model)
  /\ \E path \in {GzPath(TraceFile), TraceFile} :
       resp' = [resp EXCEPT ![h] = Some(ProfiledResp(GenText(h), path))]
  /\ hpc' = [hpc EXCEPT ![h] = "done"]
  /\ UNCHANGED <<cfgVars, queryVars, doneSizes, BATCH_QUEUE, startVars, profile, item, workerVars,
                 global_chat_model, metrics, histVars>>

\* lines 153, 170-172, 195-198: generate returns, then leaving the profiler or
\* export_chrome_trace raises; the fallback is taken
ProfExportRaise(h) ==
  /\ hpc[h] = "p_gen1"
  /\ plocals' = [plocals EXCEPT ![h].output = GenText(h), ![h].used_fallback = TRUE]
  /\ loaded' = LoadedAfterReturn(plocals[h].model)
  /\ hpc' = [hpc EXCEPT ![h] = "p_fb"]
  /\ UNCHANGED <<cfgVars, queryVars, doneSizes, BATCH_QUEUE, startVars, profile, item, resp, workerVars,
                 global_chat_model, metrics, histVars>>

\* lines 153, 195-198: generate raises under torch.profiler; the fallback is taken
ProfGenRaise(h) ==
  /\ hpc[h] = "p_gen1"
  /\ plocals' = [plocals EXCEPT ![h].used_fallback = TRUE]
  /\ loaded' \in LoadedAfterRaise(plocals[h].model)
  /\ hpc' = [hpc EXCEPT ![h] = "p_fb"]
  /\ UNCHANGED <<cfgVars, queryVars, doneSizes, BATCH_QUEUE, startVars, profile, item, resp, workerVars,
                 global_chat_model, metrics, histVars>>

\* lines 200-202, 153: the autograd profiler is entered and _run_generate calls generate
FallbackGenStart(h) ==
  /\ hpc[h] = "p_fb"
  /\ genCalls' = [genCalls EXCEPT ![h] = @ + 1]
  /\ hpc' = [hpc EXCEPT ![h] = "p_gen2"]
  /\ UNCHANGED <<cfgVars, queryVars, doneSizes, BATCH_QUEUE, startVars, profile, item, resp, plocals, workerVars,
                 modelVars, metrics, putOrder, genOrder, setCount, outcome>>

\* lines 200-201, 215-217: setting up the autograd profiler raises
FallbackSetupRaise(h) ==
  /\ hpc[h] = "p_fb"
  /\ resp' = [resp EXCEPT ![h] = Some(ProfilingFailedResp)]
  /\ hpc' = [hpc EXCEPT ![h] = "done"]
  /\ UNCHANGED <<cfgVars, queryVars, doneSizes, BATCH_QUEUE, startVars, profile, item, plocals, workerVars,
                 modelVars, metrics, histVars>>

\* lines 153, 203-214, 219-226: generate returns under the autograd profiler, the
\* note file is written and prof_path is the .json
FallbackGenReturn(h) ==
  /\ hpc[h] = "p_gen2"
  /\ plocals' = [plocals EXCEPT ![h].output = GenText(h)]
  /\ loaded' = LoadedAfterReturn(plocals[h].model)
  /\ resp' = [resp EXCEPT ![h] = Some(ProfiledResp(GenText(h), TraceFile))]
  /\ hpc' = [hpc EXCEPT ![h] = "done"]
  /\ UNCHANGED <<cfgVars, queryVars, doneSizes, BATCH_QUEUE, startVars, profile, item, workerVars,
                 global_chat_model, metrics, histVars>>

\* lines 153, 213, 215-217: generate returns, then writing the note file raises
FallbackWriteRaise(h) ==
  /\ hpc[h] = "p_gen2"
  /\ plocals' = [plocals EXCEPT ![h].output = GenText(h)]
  /\ loaded' = LoadedAfterReturn(plocals[h].model)
  /\ resp' = [resp EXCEPT ![h] = Some(ProfilingFailedResp)]
  /\ hpc' = [hpc EXCEPT ![h] = "done"]
  /\ UNCHANGED <<cfgVars, queryVars, doneSizes, BATCH_QUEUE, startVars, profile, item, workerVars,
                 global_chat_model, metrics, histVars>>

\* lines 153, 215-217: generate raises under the autograd profiler
FallbackGenRaise(h) ==
  /\ hpc[h] = "p_gen2"
  /\ resp' = [resp EXCEPT ![h] = Some(ProfilingFailedResp)]
  /\ loaded' \in LoadedAfterRaise(plocals[h].model)
  /\ hpc' = [hpc EXCEPT ![h] = "done"]
  /\ UNCHANGED <<cfgVars, queryVars, doneSizes, BATCH_QUEUE, startVars, profile, item, plocals, workerVars,
                 global_chat_model, metrics, histVars>>

\* ---------------------------------------------------------------- metrics()
\* avg_batch_size as the fraction the division is made of; 0 is 0/1
Fraction(n, d) == [num |-> n, den |-> d]
ZeroAvg == Fraction(0, 1)

\* lines 235-237: GET /metrics arrives; the dict display first copies _metrics
\* (`**_metrics`), which fixes the returned batches and total_batch_items
MetricsRequest ==
  /\ mpc = "idle"
  /\ mq' = [mq EXCEPT !.batches = metrics.batches,
                      !.total_batch_items = metrics.total_batch_items]
  /\ mpc' = "m_cond"
  /\ UNCHANGED <<cfgVars, BATCH_QUEUE, startVars, handlerVars, workerVars, modelVars,
                 metrics, histVars, doneSizes>>

\* line 239: the condition `if _metrics["batches"]` reads the counter again;
\* when it is 0 avg_batch_size is 0 and the response is returned
MetricsCond ==
  /\ mpc = "m_cond"
  /\ IF metrics.batches /= 0
       THEN /\ mpc' = "m_num"
            /\ UNCHANGED mq
       ELSE /\ mpc' = "done"
            /\ mq' = [mq EXCEPT !.avg_batch_size = ZeroAvg]
  /\ UNCHANGED <<cfgVars, BATCH_QUEUE, startVars, handlerVars, workerVars, modelVars,
                 metrics, histVars, doneSizes>>

\* line 239: the left operand of the division, _metrics["total_batch_items"]
MetricsNum ==
  /\ mpc = "m_num"
  /\ mq' = [mq EXCEPT !.num = metrics.total_batch_items]
  /\ mpc' = "m_den"
  /\ UNCHANGED <<cfgVars, BATCH_QUEUE, startVars, handlerVars, workerVars, modelVars,
                 metrics, histVars, doneSizes>>

\* lines 239-243: the right operand, _metrics["batches"], the division, and the
\* response is returned
MetricsDen ==
  /\ mpc = "m_den"
  /\ mq' = [mq EXCEPT !.avg_batch_size = Fraction(mq.num, metrics.batches)]
  /\ mpc' = "done"
  /\ UNCHANGED <<cfgVars, BATCH_QUEUE, startVars, handlerVars, workerVars, modelVars,
                 metrics, histVars, doneSizes>>

\* ---------------------------------------------------------------- specification
BatchedStep(h) ==
  \/ RequestBatched(h)
  \/ EnsureLock(h) \/ EnsureReturn(h) \/ EnsureStart(h) \/ EnsureSetFlag(h)
  \/ Put(h) \/ WaitTimeout(h) \/ Respond(h)

ProfiledStep(h) ==
  \/ RequestProfiled(h)
  \/ ProfModelNew(h) \/ ProfModelLoadOk(h) \/ ProfModelLoadFail(h)
  \/ ProfGenStart(h) \/ ProfSetupRaise(h)
  \/ ProfGenReturn(h) \/ ProfExportRaise(h) \/ ProfGenRaise(h)
  \/ FallbackGenStart(h) \/ FallbackSetupRaise(h)
  \/ FallbackGenReturn(h) \/ FallbackWriteRaise(h) \/ FallbackGenRaise(h)

WorkerStep(w) ==
  \/ WorkerGet(w)
  \/ WorkerTimedGetItem(w) \/ WorkerTimedGetEmpty(w)
  \/ WorkerModelCheck(w) \/ WorkerModelNew(w) \/ WorkerModelLoadOk(w)
  \/ WorkerModelLoadFail(w) \/ WorkerModelReturn(w)
  \/ WorkerGenStart(w) \/ WorkerGenReturn(w) \/ WorkerGenRaise(w) \/ WorkerSetEvent(w)
  \/ WorkerBatchDone(w) \/ WorkerRecordItems(w)

\* the service with batched requests only
NextBatched ==
  \/ \E h \in Handlers : BatchedStep(h)
  \/ \E w \in Handlers : WorkerStep(w)
  \/ Tick

\* the service with batched and profiled requests
Next ==
  \/ \E h \in Handlers : BatchedStep(h)
  \/ \E h \in Handlers : ProfiledStep(h)
  \/ \E w \in Handlers : WorkerStep(w)
  \/ Tick

SpecBatched == Init /\ [][NextBatched]_vars

MetricsStep == MetricsRequest \/ MetricsCond \/ MetricsNum \/ MetricsDen

\* a batched request whose wait does not last the 300 seconds of line 133
PatientStep(h) ==
  \/ RequestBatched(h)
  \/ EnsureLock(h) \/ EnsureReturn(h) \/ EnsureStart(h) \/ EnsureSetFlag(h)
  \/ Put(h) \/ Respond(h)

\* batched requests, none of which times out, and one concurrent GET /metrics
NextMetrics ==
  \/ \E h \in Handlers : PatientStep(h)
  \/ \E w \in Handlers : WorkerStep(w)
  \/ Tick
  \/ MetricsStep

\* batched and profiled requests under a configuration that coalesces
InitCoalescing ==
  /\ Init
  /\ BATCH_MAX_SIZE = MaxS
  /\ BATCH_MAX_DELAY_SEC = MaxW

SpecProfiled == InitCoalescing /\ [][Next]_vars

SpecMetrics == InitCoalescing /\ [][NextMetrics]_vars

\* batched requests under BATCH_MAX_SIZE and BATCH_MAX_DELAY_SEC negative, zero
\* and positive
InitEdge ==
  /\ BATCH_MAX_SIZE \in EdgeSizes
  /\ BATCH_MAX_DELAY_SEC \in EdgeWindows
  /\ InitState

SpecEdge == InitEdge /\ [][NextBatched]_vars

Spec == Init /\ [][Next]_vars

\* ---------------------------------------------------------------- properties
HasItem(t) == item[t] /= None
Ticket(t) == item[t][1]
Populated(opt) == opt /= None

\* the tickets of worker w's batch that the for loop has finished with
Passed(w) ==
  IF wpc[w] \in {"w_item", "w_gen", "w_set", "w_rec2", "w_get"}
    THEN {batch[w][i] : i \in 1..(idx[w] - 1)}
    ELSE {}

\* threads inside a call of generate
WorkersInGenerate == {w \in Handlers : wpc[w] = "w_gen"}
HandlersInGenerate == {h \in Handlers : hpc[h] \in {"p_gen1", "p_gen2"}}

IsPrefix(a, b) == Len(a) <= Len(b) /\ \A i \in 1..Len(a) : a[i] = b[i]

Max2(a, b) == IF a >= b THEN a ELSE b

C2_NoTicketStranded ==
  ~ \E t \in Handlers :
      /\ HasItem(t)
      /\ ~Ticket(t).event
      /\ batch_thread_started
      /\ \A w \in Started : wpc[w] = "dead"

\* C3: an exception raised by get_model() or m.generate() never ends the worker
\* loop: a started worker is never dead.
C3_WorkerNeverDies ==
  \A w \in Started : wpc[w] /= "dead"

\* C4: within a batch, every ticket the for loop has finished with is signalled,
\* was passed to the backend exactly once, and carries its own result: the error
\* description when its call raised, the text generated for its own prompt when
\* its call returned, whatever the calls of its siblings did; when the batch is
\* recorded the loop has finished with all of its tickets.
C4_FailureIsolation ==
  \A w \in Handlers :
    /\ \A t \in Passed(w) :
         /\ Ticket(t).event
         /\ genCalls[t] = 1
         /\ outcome[t].kind = "raised" =>
              Ticket(t).error = Some(outcome[t].desc) /\ Ticket(t).output = None
         /\ outcome[t].kind = "ok" =>
              Ticket(t).output = Some(GenText(Ticket(t).prompt)) /\ Ticket(t).error = None
    /\ wpc[w] = "w_rec2" => Passed(w) = {batch[w][i] : i \in 1..Len(batch[w])}

\* C4 witness: a finished batch of three tickets in which the backend failed on
\* the second only
C4_Witness ==
  \E w \in Handlers :
    /\ wpc[w] = "w_rec2"
    /\ Len(batch[w]) = 3
    /\ outcome[batch[w][1]].kind = "ok"
    /\ outcome[batch[w][2]].kind = "raised"
    /\ outcome[batch[w][3]].kind = "ok"

\* C5 (as claimed): every assembled batch has between 1 and BATCH_MAX_SIZE
\* tickets, for every configured BATCH_MAX_SIZE.
C5_SizeWithinS ==
  \A w \in Handlers :
    batch[w] /= <<>> => (1 <= Len(batch[w]) /\ Len(batch[w]) <= BATCH_MAX_SIZE)

\* C5 (amended): every assembled batch has at least 1 ticket and at most
\* max(BATCH_MAX_SIZE, 1) tickets.
C5_SizeWithinMaxS1 ==
  \A w \in Started :
    \/ wpc[w] = "w_get" /\ batch[w] = <<>> /\ metrics.batches = 0
    \/ (1 <= Len(batch[w]) /\ Len(batch[w]) <= Max2(BATCH_MAX_SIZE, 1))

\* C5 witness: a batch filled up to a BATCH_MAX_SIZE of at least 2 goes to dispatch
C5_Witness ==
  \E w \in Handlers :
    /\ wpc[w] = "w_item"
    /\ BATCH_MAX_SIZE >= 2
    /\ Len(batch[w]) = BATCH_MAX_SIZE

\* C6: the worker's generate calls start in the order in which the puts
\* completed: the sequence of tickets passed to generate is a prefix of the
\* sequence of tickets put.
C6_Fifo == IsPrefix(genOrder, putOrder)

\* C6 witness: three tickets, put in an order other than that of their
\* requests' arrival, dispatched over more than one batch
C6_Witness ==
  /\ Len(genOrder) = 3
  /\ putOrder /= <<1, 2, 3>>
  /\ metrics.batches >= 1
  /\ \E w \in Handlers : wpc[w] = "w_gen" /\ Len(batch[w]) < 3

\* C7: at most one batch-worker thread is ever started.
C7_AtMostOneWorker == Cardinality(Started) <= 1

\* C7 witness: a handler that passed the unlocked check before the flag was set
\* finds it set under the lock
C7_Witness ==
  \E h \in Handlers : hpc[h] = "e_unlock" /\ Cardinality(Started) = 1

\* C8: a handler whose wait ended by completion answers 200 with the output
\* exactly when the backend call returned, and 500 with the error description
\* exactly when it raised, whatever the description.
C8_ResponseMatchesOutcome ==
  \A h \in Handlers :
    (hpc[h] = "done" /\ ~profile[h] /\ resp[h] /= Some(TimeoutResp)) =>
      /\ outcome[h].kind = "ok" => resp[h] = Some(OkResp(Some(GenText(h))))
      /\ outcome[h].kind = "raised" => resp[h] = Some(FailedResp(Some(outcome[h].desc)))

\* C9: a wait that ends before the event is set answers 504, which is not the
\* status of a failed generation, and the step changes no ticket, nor the
\* queue, nor any worker's batch.
C9_TimeoutLeavesTicket ==
  [][\A h \in Handlers :
       (hpc[h] = "wait" /\ ~Ticket(h).event /\ hpc'[h] = "done") =>
         /\ resp'[h] = Some(TimeoutResp)
         /\ resp'[h][1].status = 504
         /\ resp'[h][1].status /= FailedResp(None).status
         /\ item' = item
         /\ BATCH_QUEUE' = BATCH_QUEUE
         /\ batch' = batch]_vars

\* C9 witness: a handler has timed out and the worker has since completed its
\* ticket
C9_Witness ==
  \E h \in Handlers :
    /\ resp[h] = Some(TimeoutResp)
    /\ Ticket(h).event
    /\ Populated(Ticket(h).output)

\* C10 (as claimed): the batch worker is the only thread that calls generate,
\* so over the worker and all handlers at most one generate call is in progress.
C10_SoleInvoker ==
  /\ HandlersInGenerate = {}
  /\ Cardinality(WorkersInGenerate) <= 1

\* C10 (amended): a handler calls generate only for a profile=true request, so
\* for batched requests the worker is the only thread that calls generate, and
\* at most one generate call of the worker is in progress at any time.
C10_SoleInvokerForBatched ==
  /\ \A h \in HandlersInGenerate : profile[h]
  /\ \A h \in Handlers : (hpc[h] /= "idle" /\ ~profile[h]) => genCalls[h] <= 1
  /\ Cardinality(WorkersInGenerate) <= 1

\* C10 witness: the worker and a profiled handler are inside generate at the
\* same time
C10_Witness ==
  /\ WorkersInGenerate /= {}
  /\ \E h \in HandlersInGenerate : profile[h]

RECURSIVE SumSeq(_)
SumSeq(q) == IF q = <<>> THEN 0 ELSE Head(q) + SumSeq(Tail(q))

\* the worker is between the two updates of _record_batch (lines 102 and 103)
InRecordBatch(w) == wpc[w] = "w_rec2"

\* C11: whenever the worker is between iterations or inside one but outside
\* _record_batch, having completed N iterations over batches of sizes s1..sN,
\* batches = N and total_batch_items = s1 + ... + sN; and no step ever
\* decreases either counter.
C11_MetricsCount ==
  /\ []((\A w \in Handlers : ~InRecordBatch(w)) =>
          /\ metrics.batches = Len(doneSizes)
          /\ metrics.total_batch_items = SumSeq(doneSizes))
  /\ [][/\ metrics'.batches >= metrics.batches
        /\ metrics'.total_batch_items >= metrics.total_batch_items]_vars

\* C11 witness: two iterations completed, over batches of different sizes
C11_Witness ==
  /\ Len(doneSizes) = 2
  /\ doneSizes[1] /= doneSizes[2]
  /\ metrics.batches = 2
  /\ \A w \in Handlers : ~InRecordBatch(w)

\* C12: in every response of GET /metrics, total_batch_items >= batches, also
\* when the counters were copied between the two updates of _record_batch.
C12_ObservedItemsAtLeastBatches ==
  mpc /= "idle" => mq.total_batch_items >= mq.batches

\* C13: every response of GET /metrics is consistent: avg_batch_size is the
\* returned total_batch_items divided by the returned batches, and 0 when the
\* returned batches is 0.
C13_ResponseConsistent ==
  mpc = "done" =>
    IF mq.batches = 0
      THEN mq.avg_batch_size.num = 0
      ELSE mq.avg_batch_size.num * mq.batches = mq.total_batch_items * mq.avg_batch_size.den

\* worker w is assembling a batch (lines 66-74)
Assembling(w) == wpc[w] = "w_tget"

\* time passed since worker w dequeued the first ticket of its batch
Elapsed(w) == BATCH_MAX_DELAY_SEC - window[w]

BatchingDisabled == BATCH_MAX_SIZE <= 0 \/ BATCH_MAX_DELAY_SEC <= 0

\* the number of tickets taken from the queue so far
NumDequeued == Len(putOrder) - Len(BATCH_QUEUE)

\* C15: when BATCH_MAX_SIZE <= 0 or BATCH_MAX_DELAY_SEC <= 0 the worker never
\* enters the timed get, and its batch is exactly the ticket its blocking get
\* dequeued last, whatever else is waiting in the queue.
C15_DisabledNoCoalescing ==
  BatchingDisabled =>
    \A w \in Handlers :
      /\ ~Assembling(w)
      /\ batch[w] /= <<>> => batch[w] = <<putOrder[NumDequeued]>>

\* C15 witness: under a negative window and the largest size, a batch of one
\* ticket goes to dispatch while two more tickets wait in the queue
C15_Witness ==
  \E w \in Handlers :
    /\ BATCH_MAX_DELAY_SEC < 0 /\ BATCH_MAX_SIZE = MaxS
    /\ wpc[w] = "w_gm_check"
    /\ Len(batch[w]) = 1
    /\ Len(BATCH_QUEUE) = 2

\* C16: a non-profiled POST /chat answered with status 200 has a body with a
\* 'response' field and a 'model' object.
C16_OkBodyHasModel ==
  \A h \in Handlers :
    (hpc[h] = "done" /\ ~profile[h] /\ resp[h][1].status = 200) =>
      {"response", "model"} \subseteq resp[h][1].keys

\* C17: a POST /chat?profile=true answered with status 200 reports a
\* profile_trace path that ends in '.json', on every profiling outcome.
C17_TraceEndsInJson ==
  \A h \in Handlers :
    (hpc[h] = "done" /\ profile[h] /\ resp[h][1].status = 200) =>
      /\ resp[h][1].trace /= None
      /\ EndsWith(resp[h][1].trace[1], "json")

\* the batch of worker w is the one it is assembling or dispatching
BatchCurrent(w) == wpc[w] \notin {"unstarted", "w_get"}

\* C18: the worker never waits in the timed get with a batch of
\* BATCH_MAX_SIZE tickets: the step that brings the batch to BATCH_MAX_SIZE takes
\* the worker to dispatch with the rest of the window unspent; every batch is
\* the run of tickets, in the order of their puts, that follows the batches
\* before it; the step that dequeues the first ticket of a batch starts a whole
\* window; and the worker leaves the timed get without a further ticket only
\* when the window has passed with the queue empty, so a ticket that is in the
\* queue before the window of the batch expires joins that batch while it has
\* fewer than BATCH_MAX_SIZE tickets.
C18_SizeTriggeredWithinWindow ==
  /\ [](\A w \in Handlers :
          /\ Assembling(w) => Len(batch[w]) < BATCH_MAX_SIZE
          /\ BatchCurrent(w) =>
               batch[w] = SubSeq(putOrder, SumSeq(doneSizes) + 1, NumDequeued))
  /\ [][\A w \in Handlers :
          /\ batch'[w] /= batch[w] =>
               /\ Len(batch'[w]) >= BATCH_MAX_SIZE => wpc'[w] = "w_gm_check"
               /\ wpc[w] = "w_get" =>
                    (batch'[w] = <<Head(BATCH_QUEUE)>> /\ window'[w] = BATCH_MAX_DELAY_SEC)
               /\ wpc[w] = "w_tget" => window'[w] = window[w]
          /\ (Assembling(w) /\ wpc'[w] /= wpc[w] /\ batch'[w] = batch[w]) =>
               (BATCH_QUEUE = <<>> /\ Elapsed(w) = BATCH_MAX_DELAY_SEC)]_vars

\* C18 witness: BATCH_MAX_SIZE = 2 and tickets 1, 2, 3 put in that order; the
\* first batch had two tickets and ticket 3 goes to dispatch alone, its own
\* window having passed
C18_Witness ==
  \E w \in Handlers :
    /\ BATCH_MAX_SIZE = 2 /\ BATCH_MAX_DELAY_SEC > 0
    /\ putOrder = <<1, 2, 3>>
    /\ doneSizes = <<2>>
    /\ genOrder = <<1, 2>>
    /\ wpc[w] = "w_gm_check"
    /\ batch[w] = <<3>>
    /\ Elapsed(w) = BATCH_MAX_DELAY_SEC

\* worker w is in the for loop of lines 78-85
Dispatching(w) == wpc[w] \in {"w_item", "w_gen", "w_set"}

\* the number of tickets of its batch that worker w has passed to generate
NumStarted(w) == IF wpc[w] = "w_item" THEN idx[w] - 1 ELSE idx[w]

\* C19: while the worker dispatches a batch, every ticket before the current
\* one has its event set, after a call that returned as after one that raised,
\* and no ticket after the current one has been passed to generate; the calls
\* were made in batch order; and a generate call begins only when the events of
\* all earlier tickets of the batch are set.
C19_SignalBeforeNext ==
  /\ [](\A w \in Handlers : Dispatching(w) =>
          /\ \A i \in 1..Len(batch[w]) :
               LET t == batch[w][i] IN
                 /\ i < idx[w] =>
                      (Ticket(t).event /\ genCalls[t] = 1 /\ outcome[t].kind /= "none")
                 /\ i > idx[w] =>
                      (~Ticket(t).event /\ genCalls[t] = 0 /\ outcome[t].kind = "none")
                 /\ i = idx[w] => ~Ticket(t).event
          /\ SubSeq(genOrder, Len(genOrder) - NumStarted(w) + 1, Len(genOrder))
               = SubSeq(batch[w], 1, NumStarted(w)))
  /\ [][\A w \in Handlers :
          (wpc[w] /= "w_gen" /\ wpc'[w] = "w_gen") =>
            /\ genOrder' = Append(genOrder, batch[w][idx[w]])
            /\ \A i \in 1..(idx[w] - 1) : Ticket(batch[w][i]).event]_vars

\* C19 witness: the generate call for the second ticket of a batch is in
\* progress after the call for the first raised and its event was set
C19_Witness ==
  \E w \in Handlers :
    /\ wpc[w] = "w_gen"
    /\ idx[w] = 2
    /\ outcome[batch[w][1]].kind = "raised"
    /\ Ticket(batch[w][1]).event

\* the tickets a worker still has to write: those in the queue, those of a
\* batch being assembled or waiting for get_model, and the current and later
\* tickets of a batch being dispatched, the current one only until its slot is
\* written
ToBeWritten ==
  {BATCH_QUEUE[i] : i \in 1..Len(BATCH_QUEUE)} \cup
  UNION {IF wpc[w] \in {"w_tget", "w_gm_check", "w_gm_new", "w_gm_load", "w_gm_ret"}
           THEN {batch[w][i] : i \in 1..Len(batch[w])}
         ELSE IF wpc[w] \in {"w_item", "w_gen"}
           THEN {batch[w][i] : i \in idx[w]..Len(batch[w])}
         ELSE IF wpc[w] = "w_set"
           THEN {batch[w][i] : i \in (idx[w] + 1)..Len(batch[w])}
         ELSE {} : w \in Handlers}

\* the step reads the slots of handler h's ticket (lines 135-138)
ReadsSlots(h) ==
  hpc[h] = "wait" /\ hpc'[h] = "done" /\ resp'[h] /= Some(TimeoutResp)

\* the step writes a slot of ticket t (lines 81, 83)
WritesSlots(t) ==
  HasItem(t) /\ (item'[t][1].output /= item[t][1].output \/ item'[t][1].error /= item[t][1].error)

\* C20: a ticket whose event is set is one no worker has still to write; a slot
\* is written only by the worker in the generate call for that ticket, with the
\* event not set before or after the write; and a handler reads the slots only
\* with the event set, so never while a worker may still write them.
C20_HandOff ==
  /\ [](\A t \in Handlers : (HasItem(t) /\ Ticket(t).event) => t \notin ToBeWritten)
  /\ [][\A t \in Handlers :
          /\ WritesSlots(t) =>
               /\ ~Ticket(t).event /\ ~item'[t][1].event
               /\ \E w \in Handlers : wpc[w] = "w_gen" /\ batch[w][idx[w]] = t
          /\ ReadsSlots(t) => (Ticket(t).event /\ t \notin ToBeWritten)]_vars

\* C20 witness: a handler has read its slots and answered while the worker is
\* in the generate call for the next ticket of the same batch
C20_Witness ==
  \E w \in Handlers :
    /\ wpc[w] = "w_gen"
    /\ idx[w] = 2
    /\ hpc[batch[w][1]] = "done"
    /\ resp[batch[w][1]] = Some(CompletedResp(Ticket(batch[w][1])))
    /\ Ticket(batch[w][1]).event

\* every ticket of worker w's batch has its event set
BatchSignalled(w) == \A i \in 1..Len(batch[w]) : Ticket(batch[w][i]).event

\* the number of tickets whose event is set
NumSignalled == Cardinality({t \in Handlers : HasItem(t) /\ Ticket(t).event})

Waiting == {h \in Handlers : hpc[h] = "wait"}

\* C22: whenever BATCH_QUEUE holds a ticket or a handler waits on its ticket's
\* event, a batch-worker thread has been started; and a ticket exists only for
\* a handler that has come through _ensure_batch_thread.
C22_StartedBeforeEnqueue ==
  /\ (BATCH_QUEUE /= <<>> \/ Waiting /= {}) => Started /= {}
  /\ \A h \in Handlers : HasItem(h) => (Started /= {} /\ batch_thread_started)

\* C22 witness: a handler that did not start the worker itself waits with its
\* ticket in the queue
C22_Witness ==
  \E h \in Waiting :
    /\ wpc[h] = "unstarted"
    /\ \E i \in 1..Len(BATCH_QUEUE) : BATCH_QUEUE[i] = h
    /\ Started /= {}

\* worker threads that are running
Alive == {w \in Started : wpc[w] /= "dead"}

\* C23: whenever _batch_thread_started is true a batch-worker thread is alive;
\* never is the flag true with no worker running, so that
\* _ensure_batch_thread returns without starting one.
C23_FlagImpliesAlive ==
  batch_thread_started => Alive /= {}

\* threads inside global_chat_model.load() called from get_model
\* (model_loader line 233)
Loading ==
  {WorkerThread(w) : w \in {v \in Handlers : wpc[v] = "w_gm_load"}} \cup
  {HandlerThread(h) : h \in {g \in Handlers : hpc[g] = "p_gm_load"}}

\* the ChatModel objects get_model has returned to a caller
ReturnedModels ==
  ({wm[w] : w \in Handlers} \cup {plocals[h].model : h \in Handlers}) \ {NoModel}

\* C24: at most one thread is ever inside load() on behalf of get_model, and
\* every ChatModel that get_model has returned has completed its load.
C24_SafeSingleton ==
  /\ Cardinality(Loading) <= 1
  /\ ReturnedModels \subseteq loaded

\* C25: a request with profile=true never makes a ticket, so it enqueues
\* nothing, and never enters _ensure_batch_thread; and when it is answered with
\* status 200 it has called generate exactly once, also when the fallback was
\* taken.
C25_ProfiledGeneratesOnce ==
  \A h \in Handlers :
    profile[h] =>
      /\ ~HasItem(h)
      /\ hpc[h] \notin {"e_lock", "e_unlock", "e_start", "e_setflag", "put", "wait"}
      /\ wpc[h] = "unstarted"
      /\ (hpc[h] = "done" /\ resp[h][1].status = 200) => genCalls[h] = 1

====
